---------------------------- MODULE Spec2Model ----------------------------
(***************************************************************************)
(* A model of crcengine (src/src/crcengine/calc.py): the bit-reversal      *)
(* utility, the two lookup-table generators and the five CRC calculation   *)
(* engines.                                                                *)
(*                                                                         *)
(* Representation of integers.  A Python int is unbounded; the CRC         *)
(* registers of the catalogue are 32 and 64 bits wide, more than a TLC     *)
(* integer holds.  Every non-negative Python int that the code shifts,     *)
(* masks or XORs is therefore modelled as the finite set of the positions  *)
(* of its 1-bits (bit 0 = least significant): 0 is {}, 0xFF is 0..7,       *)
(* 1 << k is {k}.  x ^ y is the symmetric difference, x & y the            *)
(* intersection, x | y the union, x << k moves every position up by k and  *)
(* x >> k drops the positions below k and moves the rest down.  Widths,    *)
(* loop counters, list indices and bit offsets stay TLA+ integers.         *)
(***************************************************************************)
EXTENDS Integers, Sequences, FiniteSets, TLC

VARIABLES
    rev,       \* the bit-reversal utility: arguments and results of the calls made
    gen,       \* the table generator: the table built last, and the entry read last
    engine,    \* the engine object a factory returned (or NoEngine / a raised error)
    frame,     \* the locals of the _CrcWindowed.calculate call in flight
    outcome,   \* what the last finished calculate call returned or raised
    called     \* whether calculate was called on the engine: never, once, again

vars == <<rev, gen, engine, frame, outcome, called>>

---------------------------------------------------------------------------
(* Python's integer operators on bit-position sets *)

\* The int literal n (0 <= n < 2^31) as a bit-position set.
Bits(n) == {b \in 0..30 : (n \div (2^b)) % 2 = 1}

\* The value of a bit-position set below 2^31 (a list index, a byte).
RECURSIVE Val(_)
Val(x) == IF x = {} THEN 0
          ELSE LET b == CHOOSE b \in x : TRUE IN 2^b + Val(x \ {b})

Xor(x, y) == (x \ y) \cup (y \ x)

And(x, y) == x \cap y

Or(x, y) == x \cup y

\* x << k, for k >= 0 (Python raises ValueError on a negative count; the
\* callers below test for it before they shift).
Shl(x, k) == {b + k : b \in x}

\* x >> k, for k >= 0.
Shr(x, k) == {b - k : b \in {c \in x : c >= k}}

\* (1 << n) - 1, for n >= 0.
Ones(n) == 0..(n - 1)

\* ~x & 0xFF
NotByte(x) == (0..7) \ x

_BYTEBITS == 8

\* F(x), with x computed before F is entered, as a Python statement sees
\* the variables the statements before it assigned.  (TLC computes the
\* arguments of an operator when they are first read; a loop written as a
\* recursion would otherwise pile up one pending register per byte.)
Strict(x, F(_)) == CHOOSE r \in {F(v) : v \in {x}} : TRUE

\* The values of one byte.
Byte == SUBSET (0..7)

\* A list index 0..255 as the byte it is, and back.
ByteBits == [n \in 0..255 |-> Bits(n)]

ByteVal == [b \in Byte |-> Val(b)]

---------------------------------------------------------------------------
(* Bit-reversal utility *)

\* A bit-reversal that forgets to move bit 0 to bit 7.
bit_reverse_byte_dropping_lsb(byte) == {7 - i : i \in {j \in 1..7 : j \in byte}}

bit_reverse_byte(byte) == {7 - i : i \in {j \in 0..7 : j \in byte}} \cap (0..7)

_REV8BITS == [n \in Byte |-> bit_reverse_byte(n)]

\* The loop of bit_reverse_n: one byte of value per round, least
\* significant first, appended to result at the low end.
RECURSIVE bit_reverse_loop(_, _, _)
bit_reverse_loop(value, result, rounds) ==
    IF rounds <= 0 THEN result
    ELSE bit_reverse_loop(Shr(value, 8),
                          Or(Shl(result, 8), _REV8BITS[And(value, 0..7)]),
                          rounds - 1)

\* A bit_reverse_n that leaves out the alignment shift for widths that are
\* no multiple of 8.
bit_reverse_n_unaligned(value, num_bits) ==
    bit_reverse_loop(value, {}, (num_bits + 7) \div 8)

bit_reverse_n(value, num_bits) ==
    LET shifted   == Shl(value, (8 - num_bits) % 8)
        num_bytes == (num_bits + 7) \div 8
    IN  bit_reverse_loop(shifted, {}, num_bytes)

get_bits_max_value(nbits) == Ones(nbits)

---------------------------------------------------------------------------
(* Bounds of the bit-reversal checks *)

\* bit_reverse_n is called for every num_bits in 1..MaxRevBits ...
MaxRevBits == 64
\* ... on every value of num_bits + ExtraBits bits when num_bits is at
\* most FullRevBits, and on a sparse family of values above that.
FullRevBits == 7
ExtraBits == 2

RevValues(n) ==
    IF n <= FullRevBits THEN SUBSET (0..(n + ExtraBits - 1))
    ELSE {{b} : b \in 0..(n + ExtraBits - 1)}
         \cup {Ones(n), Ones(n + ExtraBits), {}, 0..(n \div 2),
               {b \in 0..(n - 1) : b % 2 = 0}, {b \in 0..(n - 1) : b % 3 = 1}}

NoCall == [calls |-> 0]

\* bit_reverse_n(value, num_bits) is called.
ReverseBits ==
    /\ rev.calls = 0
    /\ \E n \in 1..MaxRevBits : \E v \in RevValues(n) :
          rev' = [calls |-> 1, value |-> v, num_bits |-> n,
                  once |-> bit_reverse_n(v, n)]
    /\ UNCHANGED <<gen, engine, frame, outcome, called>>

\* bit_reverse_n is called on the previous result, same num_bits.
ReverseAgain ==
    /\ rev.calls = 1
    /\ rev' = [calls |-> 2, value |-> rev.value, num_bits |-> rev.num_bits,
               once |-> rev.once,
               twice |-> bit_reverse_n(rev.once, rev.num_bits)]
    /\ UNCHANGED <<gen, engine, frame, outcome, called>>

NoTable == [kind |-> "none"]
NoEngine == [kind |-> "none"]
NoFrame == [pc |-> "idle"]
NoOutcome == [kind |-> "none"]

\* Nothing has been called yet.
Init ==
    /\ rev = NoCall
    /\ gen = NoTable
    /\ engine = NoEngine
    /\ frame = NoFrame
    /\ outcome = NoOutcome
    /\ called = "never"

SpecRev == Init /\ [][ReverseBits \/ ReverseAgain]_vars

---------------------------------------------------------------------------
(* What a call gives back: a value, or the exception it raised *)

Return(v) == [raised |-> "", value |-> v]

Raise(e) == [raised |-> e]

---------------------------------------------------------------------------
(* Table generator *)

\* One round of the MSB-first shift register: "if crc & ms_bit:
\* crc = (crc << 1) ^ poly, else crc <<= 1".
msb_round(crc, poly, ms_bit) ==
    IF And(crc, ms_bit) # {} THEN Xor(Shl(crc, 1), poly) ELSE Shl(crc, 1)

\* One round of the LSB-first shift register: "if crc & 1:
\* crc = (crc >> 1) ^ poly, else crc >>= 1".
lsb_round(crc, poly) ==
    IF 0 \in crc THEN Xor(Shr(crc, 1), poly) ELSE Shr(crc, 1)

\* A doubling loop that leaves the bits shifted out of the register in the
\* entries.
RECURSIVE msb_table_loop_unmasked(_, _, _, _, _)
msb_table_loop_unmasked(table, crc, i, poly, width) ==
    IF i > 128 THEN table
    ELSE LET next == msb_round(crc, poly, {width - 1})
         IN  msb_table_loop_unmasked(
                 [n \in 0..255 |-> IF n \in i..(2 * i - 1)
                                   THEN Xor(table[n - i], next)
                                   ELSE table[n]],
                 next, 2 * i, poly, width)

\* The while loop of create_msb_table.  The inner for loop writes the
\* entries i..2i-1 and reads the entries 0..i-1, so its writes never feed
\* its reads and one function constructor makes all of them.
RECURSIVE msb_table_loop(_, _, _, _, _)
msb_table_loop(table, crc, i, poly, width) ==
    IF i > 128 THEN table
    ELSE LET next == And(msb_round(crc, poly, {width - 1}), Ones(width))
         IN  msb_table_loop(
                 [n \in 0..255 |-> IF n \in i..(2 * i - 1)
                                   THEN Xor(table[n - i], next)
                                   ELSE table[n]],
                 next, 2 * i, poly, width)

\* A table generator that applies the polynomial to every entry, whatever
\* the top bit.
create_msb_table_always_xor(poly, width) ==
    IF width - 1 < 0 THEN Raise("ValueError")
    ELSE Return([n \in 0..255 |->
                    IF n = 0 THEN {}
                    ELSE And(Xor(Shl(Bits(n), 1), poly), Ones(width))])

\* "ms_bit = 1 << (width - 1)" raises ValueError (negative shift count)
\* when width <= 0.
create_msb_table(poly, width) ==
    IF width - 1 < 0 THEN Raise("ValueError")
    ELSE Return(msb_table_loop([n \in 0..255 |-> {}], {width - 1}, 1,
                               poly, width))

\* The register after n rounds of the MSB-first shift register, not masked.
RECURSIVE msb_table_rounds(_, _, _, _)
msb_table_rounds(crc, poly, ms_bit, n) ==
    IF n <= 0 THEN crc
    ELSE msb_round(msb_table_rounds(crc, poly, ms_bit, n - 1), poly, ms_bit)

\* The body of the for loop of create_msb_table_individual: n shifted to
\* the top of the register, put through 8 rounds and masked.
msb_table_entry(n, poly, width) ==
    And(msb_table_rounds(Shl(ByteBits[n], width - 8), poly, {width - 1}, 8),
        Ones(width))

\* create_msb_table_individual: entry 0 stays 0.  "1 << (width - 1)" raises
\* ValueError when width <= 0 and "n << msb_lshift" when width < 8.
create_msb_table_individual(poly, width) ==
    IF width - 1 < 0 \/ width - 8 < 0 THEN Raise("ValueError")
    ELSE Return([n \in 0..255 |->
                    IF n = 0 THEN {} ELSE msb_table_entry(n, poly, width)])

\* The while loop of create_lsb_table.  The inner for loop writes the
\* entries i + k*2i and reads the entries k*2i: again no write feeds a read.
RECURSIVE lsb_table_loop(_, _, _, _)
lsb_table_loop(table, crc, i, poly) ==
    IF i <= 0 THEN table
    ELSE LET next == lsb_round(crc, poly)
         IN  lsb_table_loop(
                 [n \in 0..255 |-> IF n >= i /\ (n - i) % (2 * i) = 0
                                   THEN Xor(next, table[n - i])
                                   ELSE table[n]],
                 next, i \div 2, poly)

\* A table generator that feeds the polynomial to the LSB-first register
\* as given, not mirrored.
create_lsb_table_poly_as_given(poly, width) ==
    Return(lsb_table_loop([n \in 0..255 |-> {}], {0}, 128, poly))

create_lsb_table(poly, width) ==
    Return(lsb_table_loop([n \in 0..255 |-> {}], {0}, 128,
                          bit_reverse_n(poly, width)))

---------------------------------------------------------------------------
(* Table-driven engines *)

\* An optional argument: None, or the value given.
None == <<>>

Some(v) == <<v>>

\* _CrcLsbfTable.__init__: "(1 << width) - 1" raises ValueError when
\* width < 0.
CrcLsbfTable_init(table, width, seed, xor_out, reverse_result) ==
    IF width < 0 THEN Raise("ValueError")
    ELSE Return([kind |-> "LsbfTable", table |-> table, seed |-> seed,
                 width |-> width, xor_out |-> xor_out,
                 result_mask |-> Ones(width),
                 reverse_result |-> reverse_result])

\* The for loop of _CrcLsbfTable.calculate: the register after the first
\* k bytes of data, starting from crc.
RECURSIVE CrcLsbfTable_loop(_, _, _, _)
CrcLsbfTable_loop(self, data, k, crc) ==
    IF k <= 0 THEN crc
    ELSE Strict(CrcLsbfTable_loop(self, data, k - 1, crc),
                LAMBDA prev :
                    And(Xor(Shr(prev, 8),
                            self.table[ByteVal[Xor(And(prev, 0..7),
                                                   data[k])]]),
                        self.result_mask))

\* An LSB-first engine that takes the seed as given, unreflected.
CrcLsbfTable_calculate_seed_unreflected(self, data) ==
    LET crc == CrcLsbfTable_loop(self, data, Len(data), self.seed)
        out == IF self.reverse_result THEN bit_reverse_n(crc, self.width)
               ELSE crc
    IN  Return(Xor(out, self.xor_out))

CrcLsbfTable_calculate(self, data) ==
    LET crc == CrcLsbfTable_loop(self, data, Len(data),
                                 bit_reverse_n(self.seed, self.width))
        out == IF self.reverse_result THEN bit_reverse_n(crc, self.width)
               ELSE crc
    IN  Return(Xor(out, self.xor_out))

\* _CrcMsbfTable.__init__; create_msb_table has raised already when
\* width <= 0.
CrcMsbfTable_init(table, width, seed, xor_out, reverse_result) ==
    IF width < 0 THEN Raise("ValueError")
    ELSE Return([kind |-> "MsbfTable", table |-> table, seed |-> seed,
                 width |-> width, xor_out |-> xor_out,
                 result_mask |-> Ones(width), msb_lshift |-> width - 8,
                 reverse_result |-> reverse_result])

\* The for loop of _CrcMsbfTable.calculate: the register after the first
\* k bytes of data, or the exception raised on the way.
\* "remainder >> self._msb_lshift" raises ValueError (negative shift count)
\* when width < 8; the table lookup raises IndexError when the index is
\* above 255, which a seed wider than width makes it.
RECURSIVE CrcMsbfTable_loop(_, _, _, _)
CrcMsbfTable_loop(self, data, k, remainder) ==
    IF k <= 0 THEN Return(remainder)
    ELSE LET prev == CrcMsbfTable_loop(self, data, k - 1, remainder)
         IN  IF prev.raised # "" THEN prev
             ELSE IF self.msb_lshift < 0 THEN Raise("ValueError")
             ELSE LET index == Xor(Shr(prev.value, self.msb_lshift), data[k])
                  IN  IF ~(index \subseteq 0..7) THEN Raise("IndexError")
                      ELSE Return(And(Xor(Shl(prev.value, 8),
                                          self.table[ByteVal[index]]),
                                      self.result_mask))

CrcMsbfTable_calculate(self, data) ==
    LET done == CrcMsbfTable_loop(self, data, Len(data), self.seed)
    IN  IF done.raised # "" THEN done
        ELSE LET out == IF self.reverse_result
                        THEN bit_reverse_n(done.value, self.width)
                        ELSE done.value
             IN  Return(Xor(out, self.xor_out))

---------------------------------------------------------------------------
(* Generic bit-by-bit engines *)

\* The register after n rounds of the MSB-first shift register, masked
\* after every round when mask_each is set (the windowed engine) and not at
\* all otherwise.
RECURSIVE msb_rounds(_, _, _, _, _, _)
msb_rounds(crc, poly, ms_bit, n, mask_each, mask) ==
    IF n <= 0 THEN crc
    ELSE LET c == msb_round(msb_rounds(crc, poly, ms_bit, n - 1,
                                       mask_each, mask),
                            poly, ms_bit)
         IN  IF mask_each THEN And(c, mask) ELSE c

\* The register after n rounds of the LSB-first shift register.
RECURSIVE lsb_rounds(_, _, _)
lsb_rounds(crc, poly, n) ==
    IF n <= 0 THEN crc ELSE lsb_round(lsb_rounds(crc, poly, n - 1), poly)

\* _CrcGeneric.__init__ and _CrcWindowed.__init__ (the same statements):
\* "(1 << width) - 1" raises ValueError when width < 0.
CrcGeneric_init(kind, poly, width, seed, ref_in, ref_out, xor_out) ==
    IF width < 0 THEN Raise("ValueError")
    ELSE LET crc_lshift == IF width < 8 THEN 8 - width ELSE 0
             msb_lshift == IF width < 8 THEN 0 ELSE width - 8
         IN  Return([kind |-> kind, poly |-> poly, width |-> width,
                     default_seed |-> seed, xor_out |-> xor_out,
                     result_mask |-> Ones(width),
                     crc_lshift |-> crc_lshift, msb_lshift |-> msb_lshift,
                     msbit_mask |-> {width + crc_lshift - 1},
                     crc_mask |-> Ones(width + crc_lshift),
                     ref_in |-> ref_in, ref_out |-> ref_out])

\* The for loop of _CrcGeneric.calculate: the register after the first k
\* bytes of data, starting from crc.
RECURSIVE CrcGeneric_loop(_, _, _, _, _)
CrcGeneric_loop(self, data, k, crc, poly) ==
    IF k <= 0 THEN crc
    ELSE LET byte == IF self.ref_in THEN _REV8BITS[data[k]] ELSE data[k]
         IN  Strict(CrcGeneric_loop(self, data, k - 1, crc, poly),
                    LAMBDA prev :
                        And(msb_rounds(Xor(prev, Shl(byte, self.msb_lshift)),
                                       poly, self.msbit_mask, _BYTEBITS,
                                       FALSE, {}),
                            self.crc_mask))

CrcGeneric_calculate(self, data, seed) ==
    LET crc0 == Shl(IF seed # None THEN seed[1] ELSE self.default_seed,
                    self.crc_lshift)
        crc1 == CrcGeneric_loop(self, data, Len(data), crc0,
                                Shl(self.poly, self.crc_lshift))
        crc2 == Shr(crc1, self.crc_lshift)
        out  == IF self.ref_out THEN bit_reverse_n(crc2, self.width)
                ELSE crc2
    IN  Return(Xor(out, self.xor_out))

\* _CrcGenericLsbf.__init__: "1 << (width - 1)" raises ValueError when
\* width <= 0.
CrcGenericLsbf_init(poly, width, seed, ref_in, ref_out, xor_out) ==
    IF width < 0 \/ width - 1 < 0 THEN Raise("ValueError")
    ELSE Return([kind |-> "GenericLsbf", poly |-> poly, width |-> width,
                 seed |-> seed, xor_out |-> xor_out,
                 result_mask |-> Ones(width), msbit |-> {width - 1},
                 msb_lshift |-> width - 8,
                 ref_in |-> ref_in, ref_out |-> ref_out])

\* The for loop of _CrcGenericLsbf.calculate: the register after the
\* first k bytes of data, starting from crc.
RECURSIVE CrcGenericLsbf_loop(_, _, _, _, _)
CrcGenericLsbf_loop(self, data, k, crc, poly) ==
    IF k <= 0 THEN crc
    ELSE LET byte == IF self.ref_in THEN _REV8BITS[data[k]] ELSE data[k]
         IN  Strict(CrcGenericLsbf_loop(self, data, k - 1, crc, poly),
                    LAMBDA prev :
                        And(lsb_rounds(Xor(prev, byte), poly, 8),
                            self.result_mask))

CrcGenericLsbf_calculate(self, data, seed) ==
    LET crc0 == IF seed # None THEN seed[1] ELSE self.seed
        poly == IF self.ref_in THEN bit_reverse_n(self.poly, self.width)
                ELSE self.poly
        crc1 == CrcGenericLsbf_loop(self, data, Len(data), crc0, poly)
        out  == IF self.ref_out THEN bit_reverse_n(crc1, self.width)
                ELSE crc1
    IN  Return(Xor(out, self.xor_out))

---------------------------------------------------------------------------
(* Windowed engine: _CrcWindowed.calculate, statement by statement *)

\* An end mask that keeps the whole byte.
_calc_end_mask_whole_byte(last_bit) == 0..7

\* ~((1 << (7 - last_bit)) - 1) & 0xFF
_calc_end_mask(last_bit) == NotByte(Ones(7 - last_bit))

\* Range checks that let a window start right after the last bit.
RangeError_start_at_end(start_bit, length_bits, num_input_bits) ==
    IF start_bit > num_input_bits \/ start_bit < 0 THEN "start_bit"
    ELSE IF length_bits < 0 THEN "length_bits negative"
    ELSE IF start_bit + length_bits > num_input_bits THEN "length_bits"
    ELSE ""

\* The range checks of _CrcWindowed.calculate, in the order of the code:
\* the argument the first failing check names, or "" when all pass.
RangeError(start_bit, length_bits, num_input_bits) ==
    IF start_bit >= num_input_bits \/ start_bit < 0 THEN "start_bit"
    ELSE IF length_bits < 0 THEN "length_bits negative"
    ELSE IF start_bit + length_bits > num_input_bits THEN "length_bits"
    ELSE ""

\* Entry into calculate(data, start_bit, length_bits, seed): the register
\* takes the seed, and a missing length_bits becomes the rest of the buffer.
WinEnter(self, data, start_bit, length_bits, seed) ==
    LET num_input_bits == _BYTEBITS * Len(data)
    IN  [pc |-> "check", data |-> data, start_bit |-> start_bit,
         length_arg |-> length_bits, seed |-> seed,
         crc |-> IF seed # None THEN seed[1] ELSE self.default_seed,
         num_input_bits |-> num_input_bits,
         length_bits |-> IF length_bits = None
                         THEN num_input_bits - start_bit
                         ELSE length_bits[1],
         read |-> 0]

\* A setup whose loop starts at the first byte of the buffer, not of the
\* window.
WinSetup_from_buffer_start(self, f) ==
    LET first_byte == f.start_bit \div _BYTEBITS
        first_bit  == f.start_bit % _BYTEBITS
        last_byte  == (f.start_bit + f.length_bits - 1) \div 8
        last_bit   == (f.start_bit + f.length_bits - 1) % 8
    IN  [pc |-> "loop", data |-> f.data, start_bit |-> f.start_bit,
         length_arg |-> f.length_arg, seed |-> f.seed,
         length_bits |-> f.length_bits,
         first_byte |-> first_byte, first_bit |-> first_bit,
         last_byte |-> last_byte, last_bit |-> last_bit,
         end_mask |-> _calc_end_mask(last_bit),
         crc |-> Shl(f.crc, self.crc_lshift),
         poly |-> Shl(self.poly, self.crc_lshift),
         index |-> 0, read |-> f.read]

\* After the range checks: the affected bytes, the end mask, and the
\* register and polynomial shifted to the top of a byte.
WinSetup(self, f) ==
    LET first_byte == f.start_bit \div _BYTEBITS
        first_bit  == f.start_bit % _BYTEBITS
        last_byte  == (f.start_bit + f.length_bits - 1) \div 8
        last_bit   == (f.start_bit + f.length_bits - 1) % 8
    IN  [pc |-> "loop", data |-> f.data, start_bit |-> f.start_bit,
         length_arg |-> f.length_arg, seed |-> f.seed,
         length_bits |-> f.length_bits,
         first_byte |-> first_byte, first_bit |-> first_bit,
         last_byte |-> last_byte, last_bit |-> last_bit,
         end_mask |-> _calc_end_mask(last_bit),
         crc |-> Shl(f.crc, self.crc_lshift),
         poly |-> Shl(self.poly, self.crc_lshift),
         index |-> first_byte, read |-> f.read]

\* The register after the loop body for byte f.index (data is 0-based in
\* the code, 1-based here).
WinBody(self, f) ==
    LET byte0 == IF self.ref_in THEN _REV8BITS[f.data[f.index + 1]]
                 ELSE f.data[f.index + 1]
        last  == f.index = f.last_byte
        first == f.index = f.first_byte
        byte1 == IF last THEN And(byte0, f.end_mask) ELSE byte0
        width1 == IF last THEN f.last_bit + 1 ELSE 8
        byte2 == IF first THEN Shl(byte1, f.first_bit) ELSE byte1
        block_width == IF first THEN width1 - f.first_bit ELSE width1
    IN  msb_rounds(Xor(f.crc, Shl(byte2, self.msb_lshift)), f.poly,
                   self.msbit_mask, block_width, TRUE, self.crc_mask)

\* A result that keeps the alignment shift of a narrow register.
WinResult_still_shifted(self, f) ==
    IF And(f.crc, Ones(self.crc_lshift)) # {} THEN Raise("AssertionError")
    ELSE LET out == IF self.ref_out THEN bit_reverse_n(f.crc, self.width)
                    ELSE f.crc
         IN  Return(Xor(out, self.xor_out))

\* After the loop: the assertion on the alignment shift, then the result.
WinResult(self, f) ==
    IF And(f.crc, Ones(self.crc_lshift)) # {} THEN Raise("AssertionError")
    ELSE LET crc == Shr(f.crc, self.crc_lshift)
             out == IF self.ref_out THEN bit_reverse_n(crc, self.width)
                    ELSE crc
         IN  Return(Xor(out, self.xor_out))

\* The for loop of _CrcWindowed.calculate, from frame f to the frame it
\* ends in.
RECURSIVE WinLoop(_, _)
WinLoop(self, f) ==
    IF f.index > f.last_byte THEN f
    ELSE WinLoop(self, [f EXCEPT !.crc = WinBody(self, f),
                                 !.index = @ + 1, !.read = @ + 1])

\* _CrcWindowed.calculate(data, start_bit, length_bits, seed), start to end.
CrcWindowed_calculate(self, data, start_bit, length_bits, seed) ==
    LET f == WinEnter(self, data, start_bit, length_bits, seed)
    IN  IF RangeError(f.start_bit, f.length_bits, f.num_input_bits) # ""
        THEN Raise("ValueError")
        ELSE WinResult(self, WinLoop(self, WinSetup(self, f)))

---------------------------------------------------------------------------
(* Factories.  args is the record of the arguments: poly, width, seed,     *)
(* ref_in, ref_out, xor_out (for create_windowed_todo, the fields of the   *)
(* CrcParams: polynomial, width, seed, reflect_in, reflect_out, xor_out).  *)

create(args) ==
    IF args.ref_in
    THEN CrcLsbfTable_init(create_lsb_table(args.poly, args.width).value,
                           args.width, args.seed, args.xor_out,
                           args.ref_in # args.ref_out)
    ELSE LET table == create_msb_table(args.poly, args.width)
         IN  IF table.raised # "" THEN table
             ELSE CrcMsbfTable_init(table.value, args.width, args.seed,
                                    args.xor_out, args.ref_out)

create_generic(args) ==
    CrcGeneric_init("Generic", args.poly, args.width, args.seed,
                    args.ref_in, args.ref_out, args.xor_out)

create_windowed_todo(args) ==
    CrcGeneric_init("Windowed", args.poly, args.width, args.seed,
                    args.ref_in, args.ref_out, args.xor_out)

create_generic_lsbf(args) ==
    CrcGenericLsbf_init(args.poly, args.width, args.seed,
                        args.ref_in, args.ref_out, args.xor_out)

\* The factory called name.
Construct(name, args) ==
    CASE name = "create" -> create(args)
      [] name = "create_generic" -> create_generic(args)
      [] name = "create_generic_lsbf" -> create_generic_lsbf(args)
      [] name = "create_windowed_todo" -> create_windowed_todo(args)

\* engine.calculate(data, seed) of a full-buffer engine; the table-driven
\* engines take no seed.
calculate(self, data, seed) ==
    CASE self.kind = "LsbfTable" -> CrcLsbfTable_calculate(self, data)
      [] self.kind = "MsbfTable" -> CrcMsbfTable_calculate(self, data)
      [] self.kind = "Generic" -> CrcGeneric_calculate(self, data, seed)
      [] self.kind = "GenericLsbf" ->
             CrcGenericLsbf_calculate(self, data, seed)

---------------------------------------------------------------------------
(* Parameter sets the checks draw from *)

\* Engines and tables are built for every width in 1..MaxWidth and for the
\* 16-bit width of the catalogue.
MaxWidth == 9
\* Every polynomial of a width up to FullPolyWidth is tried; above that, the
\* low bits of well-known generator polynomials.
FullPolyWidth == 2
\* Buffers hold up to MaxLen bytes.
MaxLen == 2

Widths == (1..MaxWidth) \cup {16}

\* CRC-32 (0x04C11DB7), CRC-16/CCITT (0x1021), CRC-8 (0x07), and 0.
KnownPolys == {Bits(79764919), Bits(4129), Bits(7), {}}

Polys(width) ==
    IF width <= FullPolyWidth THEN SUBSET Ones(width)
    ELSE {And(p, Ones(width)) : p \in KnownPolys} \cup {Ones(width)}

Seeds(width) == {{}, {0}, Ones(width)}

XorOuts(width) == {{}, Ones(width) \ {1}}

ArgsOf(width, polys, seeds, xor_outs) ==
    {[poly |-> p, width |-> width, seed |-> s, ref_in |-> ri,
      ref_out |-> ro, xor_out |-> x] :
        p \in polys, s \in seeds, x \in xor_outs,
        ri \in BOOLEAN, ro \in BOOLEAN}

\* Arguments that respect the invariant of a parameter set: width >= 1,
\* and polynomial, seed and xor_out within width bits.
ValidArgs ==
    UNION {ArgsOf(w, Polys(w), Seeds(w), XorOuts(w)) : w \in Widths}

\* CRC-32: poly 0x04C11DB7, width 32, seed and xor_out 0xFFFFFFFF, both
\* reflections.
Crc32Args ==
    [poly |-> Bits(79764919), width |-> 32, seed |-> Ones(32),
     ref_in |-> TRUE, ref_out |-> TRUE, xor_out |-> Ones(32)]

\* Arguments that break it: a width of 0 or -1, or a polynomial, seed or
\* xor_out with bit 8 set in a width of 8.
InvalidArgs ==
    ArgsOf(0, {{}}, {{}}, {{}}) \cup ArgsOf(-1, {{}}, {{}}, {{}})
    \cup ArgsOf(8, {Bits(263)}, {{}}, {{}})
    \cup ArgsOf(8, {Bits(7)}, {{8}}, {{}})
    \cup ArgsOf(8, {Bits(7)}, {{}}, {{8}})

ArgsFit(args) ==
    /\ args.width >= 1
    /\ args.poly \subseteq Ones(args.width)
    /\ args.seed \subseteq Ones(args.width)
    /\ args.xor_out \subseteq Ones(args.width)

\* The bytes buffers are made of: 0x00, "1" (0x31) and 0xA6.
DataBytes == {Bits(0), Bits(49), Bits(166)}

Buffers(maxlen) == UNION {[1..k -> DataBytes] : k \in 0..maxlen}

\* The ASCII bytes "123456789".
CheckString == [k \in 1..9 |-> Bits(48 + k)]

AllFactories ==
    {"create", "create_generic", "create_generic_lsbf", "create_windowed_todo"}

---------------------------------------------------------------------------
(* The table generator's operations *)

\* create_msb_table(poly, width) is called.
GenerateMsbTable ==
    /\ gen = NoTable
    /\ \E width \in Widths \cup {32} : \E poly \in Polys(width) :
          gen' = [kind |-> "msb", poly |-> poly, width |-> width,
                  table |-> create_msb_table(poly, width).value, read |-> -1]
    /\ UNCHANGED <<rev, engine, frame, outcome, called>>

\* create_lsb_table(poly, width) is called.
GenerateLsbTable ==
    /\ gen = NoTable
    /\ \E width \in Widths \cup {32} : \E poly \in Polys(width) :
          gen' = [kind |-> "lsb", poly |-> poly, width |-> width,
                  table |-> create_lsb_table(poly, width).value, read |-> -1]
    /\ UNCHANGED <<rev, engine, frame, outcome, called>>

\* A user of the table reads entry i.
ReadEntry ==
    /\ gen # NoTable
    /\ gen.read = -1
    /\ \E i \in 0..255 : gen' = [gen EXCEPT !.read = i]
    /\ UNCHANGED <<rev, engine, frame, outcome, called>>

SpecTable ==
    /\ Init
    /\ [][GenerateMsbTable \/ GenerateLsbTable \/ ReadEntry]_vars

---------------------------------------------------------------------------
(* The engines' operations *)

\* A calculate that keeps the per-call seed for the calls to come.
EngineAfterCalculate_keeping_seed(self, seed) ==
    IF seed # None /\ self.kind \in {"Generic", "Windowed"}
    THEN [self EXCEPT !.default_seed = seed[1]]
    ELSE self

\* What a calculate call with per-call seed `seed` leaves in the engine
\* object.  No statement of any calculate method assigns an attribute of
\* self or an element of the table: the register, the polynomial and the
\* loop state are locals.
EngineAfterCalculate(self, seed) == self

\* The engine variable after a call of calculate.
EngineAfter(e, seed) ==
    [e EXCEPT !.made = Return(EngineAfterCalculate(e.made.value, seed))]

\* Calls of calculate begun on the engine: never, once, or again and again.
Again(c) == IF c = "never" THEN "once" ELSE "again"

\* One of the factories is called with one of the argument records; what
\* it returns, or raises, is kept with the arguments.
CreateEngine(factories, argset) ==
    /\ engine = NoEngine
    /\ \E f \in factories : \E a \in argset :
          engine' = [kind |-> "made", factory |-> f, args |-> a,
                     made |-> Construct(f, a)]
    /\ UNCHANGED <<rev, gen, frame, outcome, called>>

IsEngine(kinds) ==
    /\ engine # NoEngine
    /\ engine.made.raised = ""
    /\ engine.made.value.kind \in kinds

\* calculate(data) on a table-driven engine.
CalculateTable(buffers) ==
    /\ IsEngine({"LsbfTable", "MsbfTable"})
    /\ \E d \in buffers :
          /\ outcome' = [kind |-> "calculate", data |-> d, seed |-> None,
                         ret |-> calculate(engine.made.value, d, None)]
          /\ engine' = EngineAfter(engine, None)
    /\ called' = Again(called)
    /\ UNCHANGED <<rev, gen, frame>>

\* calculate(data, seed) on a bit-by-bit full-buffer engine.
CalculateGeneric(buffers, seeds) ==
    /\ IsEngine({"Generic", "GenericLsbf"})
    /\ \E d \in buffers : \E s \in seeds :
          /\ outcome' = [kind |-> "calculate", data |-> d, seed |-> s,
                         ret |-> calculate(engine.made.value, d, s)]
          /\ engine' = EngineAfter(engine, s)
    /\ called' = Again(called)
    /\ UNCHANGED <<rev, gen, frame>>

\* calculate(data, start_bit, length_bits, seed) is entered on the windowed
\* engine.  windows(d) is the set of <<start_bit, length_bits>> tried on d.
\* The caller holds no result while the call is in flight.
WinCall(buffers, windows(_), seeds) ==
    /\ IsEngine({"Windowed"})
    /\ frame = NoFrame
    /\ \E d \in buffers : \E w \in windows(d) : \E s \in seeds :
          /\ frame' = WinEnter(engine.made.value, d, w[1], w[2], s)
          /\ engine' = EngineAfter(engine, s)
    /\ outcome' = NoOutcome
    /\ called' = Again(called)
    /\ UNCHANGED <<rev, gen>>

\* The range checks: the call ends in ValueError, or goes on to the loop.
WinCheck ==
    /\ frame.pc = "check"
    /\ LET bad == RangeError(frame.start_bit, frame.length_bits,
                             frame.num_input_bits)
       IN  IF bad # ""
           THEN /\ outcome' = [kind |-> "windowed", data |-> frame.data,
                               start_bit |-> frame.start_bit,
                               length_arg |-> frame.length_arg,
                               seed |-> frame.seed,
                               ret |-> Raise("ValueError"), arg |-> bad,
                               crc |-> frame.crc, read |-> frame.read]
                /\ frame' = NoFrame
           ELSE /\ frame' = WinSetup(engine.made.value, frame)
                /\ UNCHANGED outcome
    /\ UNCHANGED <<rev, gen, engine, called>>

\* One pass of the for loop: byte data[index] goes through the register.
WinByte ==
    /\ frame.pc = "loop"
    /\ frame.index <= frame.last_byte
    /\ frame' = [frame EXCEPT !.crc = WinBody(engine.made.value, frame),
                              !.index = @ + 1, !.read = @ + 1]
    /\ UNCHANGED <<rev, gen, engine, outcome, called>>

\* The loop is over: the assertion, the final shift, reflection and XOR.
WinFinish ==
    /\ frame.pc = "loop"
    /\ frame.index > frame.last_byte
    /\ outcome' = [kind |-> "windowed", data |-> frame.data,
                   start_bit |-> frame.start_bit,
                   length_arg |-> frame.length_arg, seed |-> frame.seed,
                   ret |-> WinResult(engine.made.value, frame), arg |-> "",
                   crc |-> frame.crc, read |-> frame.read]
    /\ frame' = NoFrame
    /\ UNCHANGED <<rev, gen, engine, called>>

\* The engine has not been called yet.
FirstCall == outcome = NoOutcome /\ frame = NoFrame

\* The windows tried on a whole buffer: the explicit one, and the default.
WholeBuffer(d) == {<<0, Some(_BYTEBITS * Len(d))>>, <<0, None>>}

\* Table-driven engines on buffers of up to MaxLen bytes and on the check
\* string, one call on each engine built.
SpecEquiv ==
    /\ Init
    /\ [][\/ CreateEngine({"create"}, ValidArgs \cup {Crc32Args})
          \/ FirstCall /\ CalculateTable(Buffers(MaxLen) \cup {CheckString})
         ]_vars

\* Buffers of the checks on all five engines hold up to ShortLen bytes.
ShortLen == 1

\* All five engines, built from fitting and from unfitting arguments, on
\* short buffers, one call on each engine built.
SpecEngines ==
    /\ Init
    /\ [][\/ CreateEngine(AllFactories, ValidArgs \cup InvalidArgs)
          \/ FirstCall /\ CalculateTable(Buffers(ShortLen))
          \/ FirstCall /\ CalculateGeneric(Buffers(ShortLen), {None})
          \/ FirstCall /\ WinCall(Buffers(ShortLen), WholeBuffer, {None})
          \/ WinCheck
          \/ WinByte
          \/ WinFinish]_vars

\* The windowed engine is built for every width, with the low bits of the
\* CRC-32 polynomial or the all-ones polynomial, seed 1 and a xor_out that
\* is not its own mirror image.
WindowedArgs ==
    UNION {ArgsOf(w, {And(Bits(79764919), Ones(w)), Ones(w)}, {{0}},
                  {Ones(w) \ {1}}) : w \in Widths}

WindowedBuffers == UNION {[1..k -> {Bits(49), Bits(166)}] : k \in 0..MaxLen}

\* Byte-aligned windows [8a, 8b) with 0 <= a <= b <= len(d), the default
\* window, and windows out of range in each of the four ways.
ByteWindows(d) ==
    LET n == Len(d)
    IN  UNION {{<<_BYTEBITS * a, Some(_BYTEBITS * (b - a))>> : b \in a..n} :
                  a \in 0..n}
        \cup {<<0, None>>, <<-1, Some(1)>>, <<-8, Some(8)>>,
              <<_BYTEBITS * n + 3, Some(0)>>, <<0, Some(-1)>>,
              <<0, Some(_BYTEBITS * n + 1)>>,
              <<_BYTEBITS, Some(_BYTEBITS * n)>>}

\* Per-call seeds: none, 0, and 5.
WindowedSeeds == {None, Some({}), Some({0, 2})}

\* The windowed engine, one call on each engine built.
SpecWindowed ==
    /\ Init
    /\ [][\/ CreateEngine({"create_windowed_todo"}, WindowedArgs)
          \/ FirstCall /\ WinCall(WindowedBuffers, ByteWindows, WindowedSeeds)
          \/ WinCheck
          \/ WinByte
          \/ WinFinish]_vars

\* The windowed engine on windows of bits: widths 1, 3, 8 and 9 with the
\* low bits of the CRC-32 polynomial.
BitWindowArgs ==
    {a \in WindowedArgs : /\ a.width \in {1, 3, 8, 9}
                          /\ a.poly = And(Bits(79764919), Ones(a.width))}

\* Every window [start_bit, start_bit + length_bits) of d that passes the
\* range checks, the empty ones included, and the default window.
BitWindows(d) ==
    LET n == _BYTEBITS * Len(d)
    IN  UNION {{<<start_bit, Some(length_bits)>> :
                    length_bits \in 0..(n - start_bit)} :
                  start_bit \in 0..(n - 1)}
        \cup {<<0, None>>}

\* Per-call seeds: none, and 0.
BitWindowSeeds == {None, Some({})}

\* The windowed engine on windows of bits, one call on each engine built.
SpecBitWindows ==
    /\ Init
    /\ [][\/ CreateEngine({"create_windowed_todo"}, BitWindowArgs)
          \/ FirstCall /\ WinCall(WindowedBuffers, BitWindows, BitWindowSeeds)
          \/ WinCheck
          \/ WinByte
          \/ WinFinish]_vars

\* Engines that are called again and again: widths 3 and 8, the all-ones
\* polynomial, seed 1.
CallArgs ==
    {a \in ValidArgs : /\ a.width \in {3, 8}
                       /\ a.poly = Ones(a.width)
                       /\ a.seed = {0}}

\* All five engines, any number of calls on each: windows in and out of
\* range, with and without a per-call seed.
SpecCalls ==
    /\ Init
    /\ [][\/ CreateEngine(AllFactories, CallArgs)
          \/ CalculateTable(Buffers(ShortLen))
          \/ CalculateGeneric(Buffers(ShortLen), WindowedSeeds)
          \/ WinCall(Buffers(ShortLen), ByteWindows, WindowedSeeds)
          \/ WinCheck
          \/ WinByte
          \/ WinFinish]_vars

---------------------------------------------------------------------------
(* What the claims compare the engines with *)

\* create_generic(args).calculate(data, seed)
GenericOn(args, data, seed) ==
    CrcGeneric_calculate(create_generic(args).value, data, seed)

\* A table-driven engine has returned from, or raised in, calculate.
TableCalled ==
    /\ outcome.kind = "calculate"
    /\ engine.factory = "create"

\* 0xCBF43926
Crc32Check == Or(Shl(Bits(52212), 16), Bits(14630))

(* C1: engine equivalence.  For every width >= 1, every polynomial, seed   *)
(* and xor_out within width bits, ref_in = ref_out and every buffer, the   *)
(* engine of create and the engine of create_generic return the same value *)
(* from calculate(data).                                                   *)
C1_EngineEquivalence ==
    (/\ TableCalled
     /\ ArgsFit(engine.args)
     /\ engine.args.ref_in = engine.args.ref_out)
        => outcome.ret = GenericOn(engine.args, outcome.data, None)

\* The same, away from the MSB-first table engine on a register narrower
\* than a byte.
C1_AgreesFromWidth8 ==
    (/\ TableCalled
     /\ ArgsFit(engine.args)
     /\ engine.args.ref_in = engine.args.ref_out
     /\ engine.args.ref_in \/ engine.args.width >= 8 \/ outcome.data = <<>>)
        => outcome.ret = GenericOn(engine.args, outcome.data, None)

(* C6: known answer.  The engine create builds for CRC-32 returns          *)
(* 0xCBF43926 on the nine bytes "123456789".                               *)
C6_KnownAnswer ==
    (/\ TableCalled
     /\ engine.args = Crc32Args
     /\ outcome.data = CheckString)
        => outcome.ret = Return(Crc32Check)

\* The CRC-32 engine, an LSB-first table engine, has returned from
\* calculate on the check string.
C6_Witness ==
    /\ TableCalled
    /\ engine.args = Crc32Args
    /\ engine.made.value.kind = "LsbfTable"
    /\ outcome.data = CheckString
    /\ outcome.ret.raised = ""

(* C7: empty input, as the claim has it.  For every engine and every       *)
(* parameter set, calculate on the empty buffer returns seed XOR xor_out,  *)
(* the seed bit-reversed for the table-driven LSB-first engine.            *)
C7_EmptyInput ==
    (/\ outcome.kind \in {"calculate", "windowed"}
     /\ outcome.data = <<>>
     /\ ArgsFit(engine.args))
        => outcome.ret =
              Return(Xor(IF engine.made.value.kind = "LsbfTable"
                         THEN bit_reverse_n(engine.args.seed,
                                            engine.args.width)
                         ELSE engine.args.seed,
                         engine.args.xor_out))

(* C7, amended.  On the empty buffer each of the four full-buffer engines  *)
(* returns r XOR xor_out, where r is the seed bit-reversed in width bits   *)
(* when ref_out is set and the seed itself otherwise, whatever ref_in is;  *)
(* the windowed engine raises the out-of-range error for start_bit.        *)
C7_EmptyInputReflected ==
    (/\ outcome.kind \in {"calculate", "windowed"}
     /\ outcome.data = <<>>
     /\ ArgsFit(engine.args))
        => IF outcome.kind = "windowed"
           THEN outcome.ret = Raise("ValueError") /\ outcome.arg = "start_bit"
           ELSE outcome.ret =
                   Return(Xor(IF engine.args.ref_out
                              THEN bit_reverse_n(engine.args.seed,
                                                 engine.args.width)
                              ELSE engine.args.seed,
                              engine.args.xor_out))

\* The LSB-first table engine of width 5 with seed 1, ref_in and no
\* ref_out, has returned 1 on the empty buffer: the seed, reversed twice.
C7_Witness ==
    /\ outcome.kind = "calculate"
    /\ outcome.data = <<>>
    /\ engine.made.value.kind = "LsbfTable"
    /\ engine.made.value.reverse_result
    /\ engine.args.width = 5
    /\ engine.args.seed = {0}
    /\ engine.args.xor_out = {}
    /\ outcome.ret = Return({0})

(* C10: configuration errors.  A factory called with width <= 0, or with   *)
(* a polynomial, seed or xor_out that has a bit at position >= width,      *)
(* fails: it returns no engine.                                            *)
C10_ConfigurationErrors ==
    (engine # NoEngine /\ ~ArgsFit(engine.args)) => engine.made.raised # ""

\* The whole-buffer window, given explicitly, with the default seed.
WholeWindowCalled ==
    /\ outcome.kind = "windowed"
    /\ outcome.start_bit = 0
    /\ outcome.length_arg = Some(8 * Len(outcome.data))
    /\ outcome.seed = None

(* C2: windowing over the whole buffer, as the claim has it.  For any      *)
(* buffer, calculate(data, start_bit=0, length_bits=8*len(data)) on the    *)
(* windowed engine returns what calculate(data) returns on the generic     *)
(* MSB-first engine of the same parameters.                                *)
C2_WholeBufferWindow ==
    WholeWindowCalled
        => outcome.ret = GenericOn(engine.args, outcome.data, None)

(* C2, amended.  The same for any buffer that is not empty; on the empty   *)
(* buffer the windowed engine raises the out-of-range error for start_bit. *)
C2_WholeNonEmptyBufferWindow ==
    WholeWindowCalled
        => IF outcome.data # <<>>
           THEN outcome.ret = GenericOn(engine.args, outcome.data, None)
           ELSE outcome.ret = Raise("ValueError") /\ outcome.arg = "start_bit"

\* A 3-bit windowed engine that reflects its input only has returned from
\* the whole-buffer window of a two-byte buffer.
C2_Witness ==
    /\ WholeWindowCalled
    /\ Len(outcome.data) = 2
    /\ outcome.read = 2
    /\ engine.args.width = 3
    /\ engine.args.ref_in
    /\ ~engine.args.ref_out
    /\ outcome.ret.raised = ""

\* A window of whole bytes [8a, 8b), 0 <= a <= b <= len(data), was asked
\* for.
ByteWindowCalled ==
    /\ outcome.kind = "windowed"
    /\ outcome.length_arg # None
    /\ outcome.start_bit % 8 = 0
    /\ outcome.length_arg[1] % 8 = 0
    /\ 0 <= outcome.start_bit
    /\ 0 <= outcome.length_arg[1]
    /\ outcome.start_bit + outcome.length_arg[1] <= 8 * Len(outcome.data)

\* data[a:b] of the window asked for.
WindowSlice ==
    SubSeq(outcome.data, outcome.start_bit \div 8 + 1,
           (outcome.start_bit + outcome.length_arg[1]) \div 8)

(* C3: windowing over a byte-aligned sub-range, as the claim has it.  For  *)
(* any buffer, any 0 <= a <= b <= len(data), any seed and flags,           *)
(* calculate(data, 8a, 8(b-a), seed=s) on the windowed engine equals       *)
(* calculate(data[a:b], seed=s) on the generic engine.                     *)
C3_ByteAlignedWindow ==
    ByteWindowCalled
        => outcome.ret = GenericOn(engine.args, WindowSlice, outcome.seed)

(* C3, amended.  The same for 0 <= a <= b <= len(data) with a < len(data); *)
(* for a = len(data) the windowed engine raises the out-of-range error for *)
(* start_bit.                                                              *)
C3_ByteAlignedWindowInside ==
    ByteWindowCalled
        => IF outcome.start_bit < 8 * Len(outcome.data)
           THEN outcome.ret
                    = GenericOn(engine.args, WindowSlice, outcome.seed)
           ELSE outcome.ret = Raise("ValueError") /\ outcome.arg = "start_bit"

\* The second byte of a two-byte buffer has been checksummed with a seed of
\* 5 by a 9-bit engine.
C3_Witness ==
    /\ ByteWindowCalled
    /\ Len(outcome.data) = 2
    /\ outcome.start_bit = 8
    /\ outcome.length_arg = Some(8)
    /\ outcome.seed = Some({0, 2})
    /\ outcome.read = 1
    /\ engine.args.width = 9
    /\ outcome.ret.raised = ""

(* C4: bounds rejection.  With total_bits = 8*len(data), the windowed      *)
(* calculate ends in the out-of-range error and returns no value whenever  *)
(* start_bit < 0, start_bit >= total_bits, length_bits < 0 or              *)
(* start_bit + length_bits > total_bits; the register then still holds     *)
(* the seed, unshifted, no data byte has been read, and the loop is never  *)
(* entered with such arguments.                                            *)
C4_BoundsRejection ==
    LET OutOfRange(start_bit, length_bits, total_bits) ==
            \/ start_bit < 0
            \/ start_bit >= total_bits
            \/ length_bits < 0
            \/ start_bit + length_bits > total_bits
        LengthOf(c) == IF c.length_arg = None
                       THEN 8 * Len(c.data) - c.start_bit
                       ELSE c.length_arg[1]
    IN  /\ (/\ outcome.kind = "windowed"
            /\ OutOfRange(outcome.start_bit, LengthOf(outcome),
                          8 * Len(outcome.data)))
               => /\ outcome.ret = Raise("ValueError")
                  /\ outcome.read = 0
                  /\ outcome.crc = IF outcome.seed # None
                                   THEN outcome.seed[1]
                                   ELSE engine.args.seed
        /\ frame.pc = "loop"
               => ~OutOfRange(frame.start_bit, LengthOf(frame),
                              8 * Len(frame.data))

\* A window one bit longer than a two-byte buffer has been refused by a
\* 3-bit engine, whose register would have been shifted by 5.
C4_Witness ==
    /\ outcome.kind = "windowed"
    /\ Len(outcome.data) = 2
    /\ outcome.start_bit = 0
    /\ outcome.length_arg = Some(17)
    /\ outcome.ret = Raise("ValueError")
    /\ outcome.arg = "length_bits"
    /\ engine.args.width = 3
    /\ outcome.crc = {0}

---------------------------------------------------------------------------
(* C8: reflection involution.  For every n in 1..MaxRevBits and every x    *)
(* below 2^n, reversing x twice in n bits gives x back.                    *)
C8_ReflectionInvolution ==
    (rev.calls = 2 /\ rev.value \subseteq Ones(rev.num_bits))
        => rev.twice = rev.value

\* A value that is not its own mirror image has been reversed twice, in a
\* width that is no multiple of 8.
C8_Witness ==
    /\ rev.calls = 2
    /\ rev.num_bits = 13
    /\ rev.value = {0}
    /\ rev.once = {12}
    /\ rev.twice = {0}

(* C9: bit-reversal contract.  For every num_bits >= 1 and every value,    *)
(* also one with bits at positions >= num_bits, the result is below        *)
(* 2^num_bits and its bit p is bit num_bits-1-p of the value; the bits of  *)
(* the value at positions >= num_bits do not matter.                       *)
C9_BitReversalContract ==
    rev.calls >= 1 =>
        /\ rev.once \subseteq Ones(rev.num_bits)
        /\ \A p \in 0..(rev.num_bits - 1) :
              (p \in rev.once) <=> ((rev.num_bits - 1 - p) \in rev.value)
        /\ rev.once = bit_reverse_n(And(rev.value, Ones(rev.num_bits)),
                                    rev.num_bits)

\* A value with a bit above num_bits has been reversed.
C9_Witness ==
    /\ rev.calls = 1
    /\ rev.num_bits = 5
    /\ rev.value = {0, 3, 6}
    /\ rev.once = {1, 4}

(* C5: table linearity.  For every width >= 1 and every polynomial of that *)
(* width, the tables of create_msb_table and create_lsb_table satisfy      *)
(* table[i ^ j] = table[i] ^ table[j] for all i, j in 0..255.              *)
C5_TableLinearity ==
    (gen # NoTable /\ gen.read # -1) =>
        \A j \in 0..255 :
            gen.table[ByteVal[Xor(ByteBits[gen.read], ByteBits[j])]]
                = Xor(gen.table[gen.read], gen.table[j])

\* Entry 0x83 of the CRC-8 (polynomial 0x07) MSB-first table has been read:
\* it is 0x80, and differs from entry 0x80 (0x89) by entry 0x03 (0x09).
C5_Witness ==
    /\ gen # NoTable
    /\ gen.kind = "msb"
    /\ gen.width = 8
    /\ gen.poly = Bits(7)
    /\ gen.read = 131
    /\ gen.table[131] = Bits(128)
    /\ gen.table[128] = Bits(137)
    /\ gen.table[3] = Bits(9)

---------------------------------------------------------------------------
(* C11: the bit-by-bit LSB-first engine agrees with the table-driven       *)
(* engine.  For every parameter set within width bits and every buffer,    *)
(* create_generic_lsbf(...).calculate(data) equals                         *)
(* create(...).calculate(data) for the same arguments.                     *)
C11_LsbfAgreesWithTable ==
    (/\ outcome.kind = "calculate"
     /\ engine.factory = "create_generic_lsbf"
     /\ ArgsFit(engine.args))
        => outcome.ret
               = calculate(create(engine.args).value, outcome.data, None)

(* C15: the doubling table generator and the entry-by-entry generator.     *)
(* For every width >= 8 and every polynomial of that width, the table      *)
(* create_msb_table(poly, width) returns equals the table                  *)
(* create_msb_table_individual(poly, width) returns at all 256 indices.    *)
(* Reading an entry does not change the table, so the tables are compared  *)
(* as the generator returns them.                                          *)
C15_DoublingMatchesIndividual ==
    (/\ gen # NoTable
     /\ gen.kind = "msb"
     /\ gen.width >= 8
     /\ gen.read = -1)
        => LET individual == create_msb_table_individual(gen.poly, gen.width)
           IN  /\ individual.raised = ""
               /\ \A i \in 0..255 : gen.table[i] = individual.value[i]

\* The CRC-16/CCITT (polynomial 0x1021) table has been returned: its entry
\* 0xFF is 0x1EF0.
C15_Witness ==
    /\ gen # NoTable
    /\ gen.kind = "msb"
    /\ gen.width = 16
    /\ gen.poly = Bits(4129)
    /\ gen.read = -1
    /\ gen.table[255] = Bits(7920)

---------------------------------------------------------------------------
\* The windowed calculate has passed the range checks and ended.
WindowDone ==
    /\ outcome.kind = "windowed"
    /\ outcome.arg = ""

\* The window of the call that ended, as bit positions of the buffer.
WindowBits ==
    LET length_bits == IF outcome.length_arg = None
                       THEN 8 * Len(outcome.data) - outcome.start_bit
                       ELSE outcome.length_arg[1]
    IN  outcome.start_bit..(outcome.start_bit + length_bits - 1)

\* data with bit p flipped, bit 0 being the most significant bit of the
\* first byte.
FlipBit(data, p) ==
    [data EXCEPT ![p \div 8 + 1] = Xor(@, {7 - (p % 8)})]

(* C13: only the bits inside the window influence a windowed CRC.  For any *)
(* parameters, any window that passes the range checks and any seed, a     *)
(* buffer that differs from data in one bit outside the window gives the   *)
(* same result as data (so do, one flip after another, all buffers that    *)
(* agree with data inside the window).                                     *)
C13_OnlyWindowBitsCount ==
    WindowDone =>
        \A p \in (0..(8 * Len(outcome.data) - 1)) \ WindowBits :
            CrcWindowed_calculate(engine.made.value,
                                  FlipBit(outcome.data, p),
                                  outcome.start_bit, outcome.length_arg,
                                  outcome.seed)
                = outcome.ret

\* The same, for engines that do not reflect their input and windows that
\* are not empty.
C13_HoldsUnreflectedNonEmpty ==
    (/\ WindowDone
     /\ ~engine.args.ref_in
     /\ WindowBits # {})
        => \A p \in (0..(8 * Len(outcome.data) - 1)) \ WindowBits :
               CrcWindowed_calculate(engine.made.value,
                                     FlipBit(outcome.data, p),
                                     outcome.start_bit, outcome.length_arg,
                                     outcome.seed)
                   = outcome.ret

(* C14: the shift-residue assertion never fails on valid input.  For every *)
(* width (below 8 in particular), every buffer and every window that       *)
(* passes the range checks, the low crc_lshift bits of the register are    *)
(* zero when the byte loop ends, and calculate returns a value.            *)
C14_NoShiftResidue ==
    WindowDone =>
        /\ And(outcome.crc, Ones(engine.made.value.crc_lshift)) = {}
        /\ outcome.ret.raised = ""

\* A 1-bit engine, its register shifted left by 7, has returned from the
\* window [3, 5) of a one-byte buffer with the register not zero.
C14_Witness ==
    /\ WindowDone
    /\ engine.args.width = 1
    /\ engine.made.value.crc_lshift = 7
    /\ Len(outcome.data) = 1
    /\ outcome.start_bit = 3
    /\ outcome.length_arg = Some(2)
    /\ outcome.read = 1
    /\ outcome.crc = {7}
    /\ outcome.ret.raised = ""

(* C16: every CRC result fits in width bits.  For each engine, when        *)
(* polynomial, seed (default or per-call) and xor_out fit in width bits,   *)
(* every value calculate returns, for any buffer and any window that       *)
(* passes the range checks, an empty one at a start_bit that is no         *)
(* multiple of 8 included, is below 2^width.                               *)
C16_ResultFitsWidth ==
    (/\ outcome.kind \in {"calculate", "windowed"}
     /\ ArgsFit(engine.args)
     /\ outcome.seed # None => outcome.seed[1] \subseteq Ones(engine.args.width)
     /\ outcome.ret.raised = "")
        => outcome.ret.value \subseteq Ones(engine.args.width)

\* The same, away from the empty windows.
C16_FitsOnNonEmptyWindow ==
    (/\ outcome.kind \in {"calculate", "windowed"}
     /\ ArgsFit(engine.args)
     /\ outcome.seed # None => outcome.seed[1] \subseteq Ones(engine.args.width)
     /\ outcome.ret.raised = ""
     /\ outcome.kind = "windowed" => WindowBits # {})
        => outcome.ret.value \subseteq Ones(engine.args.width)

---------------------------------------------------------------------------
\* The engine a factory builds afresh from the arguments of the engine in
\* use.
FreshEngine == Construct(engine.factory, engine.args)

(* C12: engines are stateless across calls.  After any sequence of         *)
(* calculate calls on one engine (any data, window and per-call seed, 0    *)
(* included, and calls that end in a range error included) the engine's    *)
(* polynomial, width, default seed, xor_out, flags and table are what the  *)
(* factory stored, and a calculate without a per-call seed returns what it *)
(* returns on a freshly built engine.                                      *)
C12_StatelessAcrossCalls ==
    (engine # NoEngine /\ engine.made.raised = "") =>
        /\ engine.made = FreshEngine
        /\ (outcome.kind = "calculate" /\ outcome.seed = None)
               => outcome.ret = calculate(FreshEngine.value, outcome.data,
                                          None)
        /\ (outcome.kind = "windowed" /\ outcome.seed = None)
               => outcome.ret
                      = CrcWindowed_calculate(FreshEngine.value, outcome.data,
                                              outcome.start_bit,
                                              outcome.length_arg, None)

\* A windowed engine that was called before has returned a value from a
\* call without a per-call seed.
C12_Witness ==
    /\ called = "again"
    /\ engine.made.value.kind = "Windowed"
    /\ outcome.kind = "windowed"
    /\ outcome.seed = None
    /\ Len(outcome.data) = 1
    /\ outcome.read = 1
    /\ outcome.ret.raised = ""

===========================================================================
